---- MODULE Spec2Model ----
(***************************************************************************)
(* Verification model of the habit-scheduling schema module of             *)
(* reborn-habit-tracker (client/src/.../Hero.tsx, "Validation Functions"). *)
(* The validators are pure functions; each is an operator computed as the  *)
(* code computes it, and a caller applies it to inputs drawn from bounded  *)
(* sets.                                                                   *)
(***************************************************************************)
EXTENDS Integers, Sequences, FiniteSets

VARIABLES
    checkIn,   \* the Partial<CheckIn> handed to validateCheckIn
    slot,      \* the ScheduledSlot handed to validateSlotDuration
    habit,     \* the Habit handed to validateSlotDuration
    slots,     \* the ScheduledSlot[] handed to validateNoSlotOverlap
    windows,   \* the TimeWindow[] handed to validateTimeWindow
    rounds,    \* how many times in a row the windows were normalized;
               \* in the other scenarios, the operations or requests so far
    called,    \* the validator called last ("none" before any call)
    ret,       \* what that call returned ("none" before any call)
    num,       \* the number handed to isQualityRating / isDayOfWeek, in halves;
               \* FAQ: the index of the item clicked last;
               \* part_002: the scroll events since the last animation frame
    str,       \* the string handed to the string type guards
    heap,      \* the objects of the caller, by reference
    argRefs,   \* the references handed to the validator called on the heap
    proc,      \* the concurrent callers: position, arguments, result
    cells,     \* the loop variables of the calls in progress
    partial,   \* the partial preferences handed to preference resolution
    store,     \* the persisted records of one user
    openIndex, \* FAQ: the index of the open item (NoIndex for null)
    ticking,   \* part_002: the module flag of handleScroll
    listeners, \* part_002: the module set of wrapped callbacks
    windowListeners, \* the scroll listeners registered on window, in order
    frames,    \* the animation-frame callbacks requested and not yet run
    comps,     \* the components using useThrottledScroll
    calls      \* how often each component's callback ran, in all and this frame

\* the arguments of the validators called alone
core == <<checkIn, slot, habit, slots, windows, rounds>>

\* the state of the other scenarios
aux == <<num, str, heap, argRefs, proc, cells, partial>>

\* the state of the store and of the landing page
app == <<store, openIndex, ticking, listeners, windowListeners, frames, comps, calls>>

vars == <<core, called, ret, aux, app>>

AppIdle ==
    /\ store = <<>>
    /\ openIndex = 0
    /\ ticking = FALSE
    /\ listeners = {}
    /\ windowListeners = <<>>
    /\ frames = <<>>
    /\ comps = <<>>
    /\ calls = <<>>

AuxIdle ==
    /\ num = 0
    /\ str = ""
    /\ heap = <<>>
    /\ argRefs = <<>>
    /\ proc = <<>>
    /\ cells = <<>>
    /\ partial = <<>>

----------------------------------------------------------------------------
(* Bounds of the model *)

\* largest minute of a slot handed to validateSlotDuration
MaxSpan == 6
\* largest habit duration handed to validateSlotDuration
MaxDuration == 6
\* largest minute of a slot of a collection handed to validateNoSlotOverlap
MaxTime == 3
\* longest slot collection
MaxSlots == 3
\* longest input array of time windows
MaxWindows == 3
\* most successive normalizations of the same windows
MaxRounds == 2

\* most slots of a generated schedule handed to validateNoSlotOverlap
MaxScheduleLen == 52
\* latest quarter of an hour at which a generated schedule starts
MaxFirstQuarter == 2

\* largest magnitude of a number handed to a numeric type guard
MaxNumber == 8

\* longest array handed to a validator by a concurrent caller
MaxCallLen == 2

\* most fields a caller supplies in a partial preference object
MaxSupplied == 2

\* most check-ins recorded for one habit
MaxOps == 3

\* most operations of all kinds applied to a store of two habits
MaxStoreOps == 2

\* most clicks on the FAQ accordion
MaxClicks == 12

\* most animation frames requested on the page
MaxRequests == 4
\* most scroll events between two animation frames
MaxBurst == 2

----------------------------------------------------------------------------
(* Enumerations *)

ANY == "ANY"
TimeWindow ==
    {"EARLY_MORNING", "MORNING", "AFTERNOON", "EVENING", "NIGHT", ANY}

FAIL == 0
HARD == 1
GOOD == 2
EASY == 3
QualityRating == {FAIL, HARD, GOOD, EASY}

----------------------------------------------------------------------------
(* JavaScript values of a Partial<CheckIn>: a field is a boolean, a number, *)
(* null, or absent (undefined).  val is read only under a test of type.     *)

JsBool(b) == [type |-> "boolean", val |-> IF b THEN 1 ELSE 0]
JsNum(n) == [type |-> "number", val |-> n]
JsNull == [type |-> "null", val |-> 0]
JsUndefined == [type |-> "undefined", val |-> 0]

\* the === operator on these values
StrictEq(a, b) == a.type = b.type /\ a.val = b.val

\* the typeof operator, as far as the validators use it
TypeofIsNumber(a) == a.type = "number"

----------------------------------------------------------------------------
(* Entity shapes, restricted to the fields the validators read *)

CheckIn(success, qualityRating) ==
    [success |-> success, qualityRating |-> qualityRating]

ScheduledSlot(startTime, endTime) ==
    [startTime |-> startTime, endTime |-> endTime]

Habit(duration) == [duration |-> duration]

----------------------------------------------------------------------------
(* Validation functions *)

\* the elements of an array
Range(a) == {a[i] : i \in 1..Len(a)}

\* Array.prototype.includes
Includes(a, x) == \E i \in 1..Len(a) : a[i] = x

\* Array.from(new Set(a)): a Set keeps the insertion order of first occurrences
RECURSIVE ArrayFromSet(_)
ArrayFromSet(a) ==
    IF a = <<>> THEN <<>>
    ELSE LET init == ArrayFromSet(SubSeq(a, 1, Len(a) - 1))
             last == a[Len(a)]
         IN  IF Includes(init, last) THEN init ELSE Append(init, last)

\* a plausible slip: the distinct windows are collected by prepending
RECURSIVE PrependedFromSet(_)
PrependedFromSet(a) ==
    IF a = <<>> THEN <<>>
    ELSE LET init == PrependedFromSet(SubSeq(a, 1, Len(a) - 1))
             last == a[Len(a)]
         IN  IF Includes(init, last) THEN init ELSE <<last>> \o init

\* a plausible slip: only a repetition of the element just before is dropped
RECURSIVE DropAdjacentRepeats(_)
DropAdjacentRepeats(a) ==
    IF a = <<>> THEN <<>>
    ELSE LET init == DropAdjacentRepeats(SubSeq(a, 1, Len(a) - 1))
             last == a[Len(a)]
         IN  IF init # <<>> /\ init[Len(init)] = last
             THEN init ELSE Append(init, last)

validateTimeWindow_prepending(w) ==
    IF Len(w) = 0 THEN <<ANY>>
    ELSE LET unique == PrependedFromSet(w)
         IN  IF Includes(unique, ANY) THEN <<ANY>> ELSE unique

validateTimeWindow_noOverride(w) ==
    IF Len(w) = 0 THEN <<ANY>> ELSE ArrayFromSet(w)

validateTimeWindow_noDefault(w) ==
    LET unique == ArrayFromSet(w)
    IN  IF Includes(unique, ANY) THEN <<ANY>> ELSE unique

validateTimeWindow_anyFirstOnly(w) ==
    IF Len(w) = 0 THEN <<ANY>>
    ELSE LET unique == ArrayFromSet(w)
         IN  IF unique[1] = ANY THEN <<ANY>> ELSE unique

validateTimeWindow_adjacentRepeats(w) ==
    IF Len(w) = 0 THEN <<ANY>>
    ELSE LET unique == DropAdjacentRepeats(w)
         IN  IF Includes(unique, ANY) THEN <<ANY>> ELSE unique

validateTimeWindow(w) ==
    IF Len(w) = 0 THEN <<ANY>>
    ELSE LET unique == ArrayFromSet(w)
         IN  IF Includes(unique, ANY) THEN <<ANY>> ELSE unique


\* a plausible slip: a successful check-in accepts any rating, FAIL included
validateCheckIn_anyRating(c) ==
    IF StrictEq(c.success, JsBool(FALSE))
    THEN \/ StrictEq(c.qualityRating, JsNull)
         \/ StrictEq(c.qualityRating, JsNum(FAIL))
    ELSE IF StrictEq(c.success, JsBool(TRUE)) /\ TypeofIsNumber(c.qualityRating)
    THEN c.qualityRating.val >= 0 /\ c.qualityRating.val <= 3
    ELSE FALSE

\* a plausible slip: == null in place of === null, which undefined passes
validateCheckIn_looseNull(c) ==
    IF StrictEq(c.success, JsBool(FALSE))
    THEN \/ StrictEq(c.qualityRating, JsNull)
         \/ StrictEq(c.qualityRating, JsUndefined)
         \/ StrictEq(c.qualityRating, JsNum(FAIL))
    ELSE IF StrictEq(c.success, JsBool(TRUE)) /\ TypeofIsNumber(c.qualityRating)
    THEN c.qualityRating.val >= 1 /\ c.qualityRating.val <= 3
    ELSE FALSE

validateCheckIn(c) ==
    IF StrictEq(c.success, JsBool(FALSE))
    THEN \/ StrictEq(c.qualityRating, JsNull)
         \/ StrictEq(c.qualityRating, JsNum(FAIL))
    ELSE IF StrictEq(c.success, JsBool(TRUE)) /\ TypeofIsNumber(c.qualityRating)
    THEN c.qualityRating.val >= 1 /\ c.qualityRating.val <= 3
    ELSE FALSE

\* a plausible slip: the slot only has to be long enough
validateSlotDuration_atLeast(s, h) ==
    s.endTime - s.startTime >= h.duration

validateSlotDuration(s, h) ==
    s.endTime - s.startTime = h.duration

\* a plausible slip: a slot that ends when another starts counts as overlap
validateNoSlotOverlap_strict(a) ==
    \A i \in 1..Len(a) : \A j \in (i + 1)..Len(a) :
        LET s1 == a[i]
            s2 == a[j]
            noOverlap == s1.endTime < s2.startTime \/ s2.endTime < s1.startTime
        IN  noOverlap

\* a plausible slip: only neighbouring slots of the array are compared
validateNoSlotOverlap_neighbours(a) ==
    \A i \in 1..Len(a) : \A j \in (i + 1)..Len(a) :
        LET s1 == a[i]
            s2 == a[j]
            noOverlap == s1.endTime <= s2.startTime \/ s2.endTime <= s1.startTime
        IN  j = i + 1 => noOverlap

\* the nested loops return false at the first pair i < j that overlaps
validateNoSlotOverlap(a) ==
    \A i \in 1..Len(a) : \A j \in (i + 1)..Len(a) :
        LET s1 == a[i]
            s2 == a[j]
            noOverlap == s1.endTime <= s2.startTime \/ s2.endTime <= s1.startTime
        IN  noOverlap

\* The alternative of the design: a stable sort by startTime ...
RECURSIVE SortByStartTime(_)
SortByStartTime(a) ==
    IF a = <<>> THEN <<>>
    ELSE LET init == SortByStartTime(SubSeq(a, 1, Len(a) - 1))
             last == a[Len(a)]
             k == Cardinality({i \in 1..Len(init) :
                                  init[i].startTime <= last.startTime})
         IN  SubSeq(init, 1, k) \o <<last>> \o SubSeq(init, k + 1, Len(init))

\* ... and a scan of the adjacent pairs of the sorted array
sortedScanNoSlotOverlap(a) ==
    LET sorted == SortByStartTime(a)
    IN  \A i \in 1..(Len(sorted) - 1) :
            sorted[i].endTime <= sorted[i + 1].startTime

----------------------------------------------------------------------------
(* Inputs *)

SuccessValues == {JsBool(TRUE), JsBool(FALSE), JsUndefined}
QualityValues == {JsNull, JsUndefined} \cup {JsNum(n) : n \in -1..4}
PartialCheckIns ==
    {CheckIn(s, q) : s \in SuccessValues, q \in QualityValues}

SpanSlots == {ScheduledSlot(a, b) : a \in 0..MaxSpan, b \in 0..MaxSpan}
Habits == {Habit(d) : d \in 0..MaxDuration}

Slots == {ScheduledSlot(a, b) : a \in 0..MaxTime, b \in 0..MaxTime}

\* the arrays of at most n elements of S
ArraysUpTo(S, n) == UNION {[1..k -> S] : k \in 0..n}

WindowArrays == ArraysUpTo(TimeWindow, MaxWindows)
SlotArrays == ArraysUpTo(Slots, MaxSlots)


NoCheckIn == CheckIn(JsUndefined, JsUndefined)
NoSlot == ScheduledSlot(0, 0)
NoHabit == Habit(0)

----------------------------------------------------------------------------
(* Calls of the entity-level validators *)

InitEntity ==
    /\ AppIdle
    /\ checkIn \in PartialCheckIns
    /\ slot \in SpanSlots
    /\ habit \in Habits
    /\ slots = <<>>
    /\ windows = <<>>
    /\ rounds = 0
    /\ called = "none"
    /\ ret = "none"
    /\ AuxIdle

CallValidateCheckIn ==
    /\ called' = "validateCheckIn"
    /\ ret' = validateCheckIn(checkIn)
    /\ UNCHANGED <<app, checkIn, slot, habit, slots, windows, rounds, aux>>

CallValidateSlotDuration ==
    /\ called' = "validateSlotDuration"
    /\ ret' = validateSlotDuration(slot, habit)
    /\ UNCHANGED <<app, checkIn, slot, habit, slots, windows, rounds, aux>>

NextEntity == CallValidateCheckIn \/ CallValidateSlotDuration

SpecEntity == InitEntity /\ [][NextEntity]_vars

----------------------------------------------------------------------------
(* Check-in consistency *)

WellTypedCheckIn(c) ==
    /\ c.success \in {JsBool(TRUE), JsBool(FALSE)}
    /\ c.qualityRating \in {JsNull} \cup {JsNum(q) : q \in QualityRating}

ConsistentCheckIn(c) ==
    \/ /\ c.success = JsBool(FALSE)
       /\ c.qualityRating \in {JsNull, JsNum(FAIL)}
    \/ /\ c.success = JsBool(TRUE)
       /\ c.qualityRating \in {JsNum(HARD), JsNum(GOOD), JsNum(EASY)}

\* C1: for every check-in with success in {true, false} and qualityRating in
\* {null, FAIL, HARD, GOOD, EASY}, validateCheckIn returns true if and only if
\* (success = false and the rating is null or FAIL) or (success = true and the
\* rating is HARD, GOOD or EASY).
C1_CheckInIff ==
    (called = "validateCheckIn" /\ WellTypedCheckIn(checkIn))
        => (ret = ConsistentCheckIn(checkIn))

C1_Witness ==
    /\ called = "validateCheckIn"
    /\ checkIn = CheckIn(JsBool(TRUE), JsNum(GOOD))
    /\ ret = TRUE

----------------------------------------------------------------------------
(* Slot/duration agreement *)

\* C4: validateSlotDuration returns true if and only if the slot's span
\* endTime - startTime equals the habit's duration exactly, with no tolerance:
\* a 30-minute slot is accepted for duration 30 and rejected for duration 25.
C4_SlotDurationExact ==
    /\ called = "validateSlotDuration"
        => (ret = (slot.startTime + habit.duration = slot.endTime))
    /\ validateSlotDuration(ScheduledSlot(480, 510), Habit(30))
    /\ ~validateSlotDuration(ScheduledSlot(480, 510), Habit(25))

C4_Witness ==
    /\ called = "validateSlotDuration"
    /\ slot = ScheduledSlot(0, 5)
    /\ habit = Habit(5)
    /\ ret = TRUE

----------------------------------------------------------------------------
(* Time-window normalization: a caller normalizes an array of preferred    *)
(* windows, and may normalize the stored result again.                     *)

InitWindows ==
    /\ AppIdle
    /\ windows \in WindowArrays
    /\ rounds = 0
    /\ checkIn = NoCheckIn
    /\ slot = NoSlot
    /\ habit = NoHabit
    /\ slots = <<>>
    /\ called = "none"
    /\ ret = "none"
    /\ AuxIdle

CallValidateTimeWindow ==
    /\ rounds = 0
    /\ called' = "validateTimeWindow"
    /\ ret' = validateTimeWindow(windows)
    /\ rounds' = 1
    /\ UNCHANGED <<app, checkIn, slot, habit, slots, windows, aux>>

RenormalizeResult ==
    /\ called = "validateTimeWindow"
    /\ rounds < MaxRounds
    /\ windows' = ret
    /\ called' = "validateTimeWindow"
    /\ ret' = validateTimeWindow(ret)
    /\ rounds' = rounds + 1
    /\ UNCHANGED <<app, checkIn, slot, habit, slots, aux>>

NextWindows == CallValidateTimeWindow \/ RenormalizeResult

SpecWindows == InitWindows /\ [][NextWindows]_vars

NoRepeats(a) == \A i, j \in 1..Len(a) : a[i] = a[j] => i = j

\* C5: normalization is idempotent: normalizing the result of a
\* normalization returns that result unchanged.
C5_Idempotent ==
    /\ called = "validateTimeWindow" => validateTimeWindow(ret) = ret
    /\ rounds >= 2 => ret = windows

C5_Witness ==
    /\ rounds = 2
    /\ Len(ret) = 2
    /\ ret = windows

\* C6: an input that contains ANY together with at least one other element,
\* in any position and with or without duplicates, is normalized to exactly
\* the one-element array [ANY].
C6_AnyDominates ==
    (called = "validateTimeWindow" /\ Includes(windows, ANY) /\ Len(windows) >= 2)
        => ret = <<ANY>>

C6_Witness ==
    /\ called = "validateTimeWindow"
    /\ windows = <<"MORNING", ANY, "EVENING">>
    /\ ret = <<ANY>>

\* C7: the empty input is normalized to exactly [ANY], and the result of a
\* normalization is never empty.
C7_EmptyDefaultsToAny ==
    /\ (called = "validateTimeWindow" /\ windows = <<>>) => ret = <<ANY>>
    /\ called = "validateTimeWindow" => Len(ret) >= 1

C7_Witness ==
    /\ called = "validateTimeWindow"
    /\ windows = <<>>
    /\ ret = <<ANY>>

\* C8 as stated: two inputs with the same set of windows (differing only in
\* order or repetition) are normalized to the same result.
C8_SameResultForSameSet ==
    called = "validateTimeWindow"
        => \A w \in WindowArrays :
               Range(w) = Range(windows) => validateTimeWindow(w) = ret

\* C8 (amended): two inputs with the same set of windows are normalized to
\* results of the same length that contain the same set of windows; the order
\* of the result is the order of first occurrence in the input.
C8_SameSetForSameSet ==
    called = "validateTimeWindow"
        => \A w \in WindowArrays :
               Range(w) = Range(windows)
                   => /\ Range(validateTimeWindow(w)) = Range(ret)
                      /\ Len(validateTimeWindow(w)) = Len(ret)

C8_Witness ==
    /\ called = "validateTimeWindow"
    /\ windows = <<"EVENING", "MORNING", "EVENING">>
    /\ ret = <<"EVENING", "MORNING">>
    /\ validateTimeWindow(<<"MORNING", "EVENING">>) # ret

\* C9: for a non-empty input without ANY the result contains no element
\* twice and contains exactly the distinct windows of the input.
C9_DistinctWindowsKept ==
    (called = "validateTimeWindow" /\ windows # <<>> /\ ~Includes(windows, ANY))
        => /\ NoRepeats(ret)
           /\ Range(ret) = Range(windows)

C9_Witness ==
    /\ called = "validateTimeWindow"
    /\ windows = <<"MORNING", "EVENING", "MORNING">>
    /\ ret = <<"MORNING", "EVENING">>

----------------------------------------------------------------------------
(* No-overlap check of the slots of one schedule *)

InitSlots ==
    /\ AppIdle
    /\ slots \in SlotArrays
    /\ checkIn = NoCheckIn
    /\ slot = NoSlot
    /\ habit = NoHabit
    /\ windows = <<>>
    /\ rounds = 0
    /\ called = "none"
    /\ ret = "none"
    /\ AuxIdle

CallValidateNoSlotOverlap ==
    /\ called' = "validateNoSlotOverlap"
    /\ ret' = validateNoSlotOverlap(slots)
    /\ UNCHANGED <<app, checkIn, slot, habit, slots, windows, rounds, aux>>

NextSlots == CallValidateNoSlotOverlap

SpecSlots == InitSlots /\ [][NextSlots]_vars

\* the minutes of the half-open interval [startTime, endTime)
Minutes(s) == s.startTime..(s.endTime - 1)

\* two slots at distinct positions share a minute
SomeSlotsIntersect(a) ==
    \E i, j \in 1..Len(a) : i # j /\ Minutes(a[i]) \cap Minutes(a[j]) # {}

\* every slot has a positive span
PositiveSpans(a) == \A i \in 1..Len(a) : a[i].startTime < a[i].endTime

\* C2 as stated: for every collection of slots, validateNoSlotOverlap returns
\* true if and only if no two slots at distinct positions have intersecting
\* half-open intervals [startTime, endTime).
C2_TrueIffDisjoint ==
    called = "validateNoSlotOverlap" => (ret = ~SomeSlotsIntersect(slots))

\* C2 (amended): for every collection of slots with startTime < endTime,
\* validateNoSlotOverlap returns true if and only if no two slots at distinct
\* positions have intersecting half-open intervals; for every collection, also
\* with slots of zero or negative span, a result of true implies that no two
\* intervals intersect, and the result is true for the empty collection and
\* for a single slot.
C2_TrueIffDisjointPositiveSpans ==
    called = "validateNoSlotOverlap"
        => /\ PositiveSpans(slots) => (ret = ~SomeSlotsIntersect(slots))
           /\ ret = TRUE => ~SomeSlotsIntersect(slots)
           /\ Len(slots) <= 1 => ret = TRUE

C2_Witness ==
    /\ called = "validateNoSlotOverlap"
    /\ slots = <<ScheduledSlot(0, 2), ScheduledSlot(2, 3), ScheduledSlot(1, 3)>>
    /\ ret = FALSE

Touching(s1, s2) == s1.endTime = s2.startTime

\* C3: two slots of which one ends exactly at the minute the other starts
\* are not reported as overlapping, in either order of appearance, and slots
\* that share at least one minute are always reported as overlapping.
C3_BoundaryTouchIsNoOverlap ==
    /\ (called = "validateNoSlotOverlap" /\ Len(slots) = 2
            /\ (Touching(slots[1], slots[2]) \/ Touching(slots[2], slots[1])))
        => ret = TRUE
    /\ (called = "validateNoSlotOverlap" /\ SomeSlotsIntersect(slots))
        => ret = FALSE
    /\ validateNoSlotOverlap(<<ScheduledSlot(480, 510), ScheduledSlot(510, 540)>>)
    /\ validateNoSlotOverlap(<<ScheduledSlot(510, 540), ScheduledSlot(480, 510)>>)
    /\ ~validateNoSlotOverlap(<<ScheduledSlot(480, 510), ScheduledSlot(500, 520)>>)
    /\ ~validateNoSlotOverlap(<<ScheduledSlot(500, 520), ScheduledSlot(480, 510)>>)

C3_Witness ==
    /\ called = "validateNoSlotOverlap"
    /\ slots = <<ScheduledSlot(1, 3), ScheduledSlot(0, 1)>>
    /\ ret = TRUE

\* C10 as stated: the pairwise check and the sort-and-scan alternative return
\* the same verdict for every collection of slots.
C10_SameVerdict ==
    called = "validateNoSlotOverlap" => (ret = sortedScanNoSlotOverlap(slots))

\* C10 (amended): the pairwise check and the sort-and-scan alternative return
\* the same verdict for every collection of slots with startTime < endTime,
\* including back-to-back slots and slots with equal start times.
C10_SameVerdictPositiveSpans ==
    (called = "validateNoSlotOverlap" /\ PositiveSpans(slots))
        => (ret = sortedScanNoSlotOverlap(slots))

C10_Witness ==
    /\ called = "validateNoSlotOverlap"
    /\ slots = <<ScheduledSlot(2, 3), ScheduledSlot(0, 1), ScheduledSlot(1, 2)>>
    /\ ret = TRUE
    /\ sortedScanNoSlotOverlap(slots)

----------------------------------------------------------------------------
(* Documented bounds of the entity fields *)

\* Schedule.slots: "Max 50 slots"
MaxSlotsPerSchedule == 50
\* ScheduledSlot.startTime, endTime: "Minutes since midnight; [0, 1439]"
MaxMinute == 1439
\* ScheduledSlot.startTime: "multiple of 15"
StartAlignment == 15
\* Habit.duration: "Minutes; [5, 240]; multiple of 5"
MinDuration == 5
MaxHabitDuration == 240
DurationStep == 5
\* SchedulingPreferences.timeSlotGranularity: 5 | 15 | 30
SlotGranularities == {5, 15, 30}

----------------------------------------------------------------------------
(* Schedules as a scheduler would emit them: n slots of one length placed  *)
(* back to back from a quarter of an hour on, all within the day.          *)

BackToBack(first, len, n) ==
    [k \in 1..n |-> ScheduledSlot(first + (k - 1) * len, first + k * len)]

GeneratedSchedules ==
    {BackToBack(StartAlignment * q, len, n) :
        q \in 0..MaxFirstQuarter, len \in SlotGranularities,
        n \in 0..MaxScheduleLen}

\* every slot of the array lies within the day
WithinDay(a) ==
    \A k \in 1..Len(a) : a[k].startTime >= 0 /\ a[k].endTime <= MaxMinute

InitSchedule ==
    /\ AppIdle
    /\ slots \in {a \in GeneratedSchedules : WithinDay(a)}
    /\ checkIn = NoCheckIn
    /\ slot = NoSlot
    /\ habit = NoHabit
    /\ windows = <<>>
    /\ rounds = 0
    /\ called = "none"
    /\ ret = "none"
    /\ AuxIdle

SpecSchedule == InitSchedule /\ [][NextSlots]_vars

\* C11: a collection of more than 50 slots is a structural conflict that the
\* collection-level validator detects: it returns a negative result for every
\* collection of more than 50 slots, even when no two of its slots overlap.
C11_TooManySlotsRejected ==
    (called = "validateNoSlotOverlap" /\ Len(slots) > MaxSlotsPerSchedule)
        => ret = FALSE

----------------------------------------------------------------------------
(* Out-of-range field values *)

DurationInBound(d) ==
    d >= MinDuration /\ d <= MaxHabitDuration /\ d % DurationStep = 0

MinuteInBound(t) == t >= 0 /\ t <= MaxMinute

\* C12: no validator returns a positive result for a slot/habit pair whose
\* habit.duration is outside 5..240 or not a multiple of 5, nor for a slot
\* whose startTime or endTime is outside 0..1439.
C12_OutOfRangeRejected ==
    (/\ called = "validateSlotDuration"
     /\ \/ ~DurationInBound(habit.duration)
        \/ ~MinuteInBound(slot.startTime)
        \/ ~MinuteInBound(slot.endTime))
        => ret = FALSE

----------------------------------------------------------------------------
(* Enumerations as objects: the members in declaration order, each with    *)
(* its name (key) and its value.                                           *)

Member(key, value) == [key |-> key, value |-> value]

TimeWindowEnum ==
    << Member("EARLY_MORNING", "EARLY_MORNING"), Member("MORNING", "MORNING"),
       Member("AFTERNOON", "AFTERNOON"), Member("EVENING", "EVENING"),
       Member("NIGHT", "NIGHT"), Member("ANY", "ANY") >>

IntegrationMethodEnum == << Member("EULER", "Euler"), Member("RK4", "RK4") >>

NotificationChannelEnum ==
    << Member("EMAIL", "email"), Member("PUSH", "push"),
       Member("IN_APP", "in-app") >>

SUNDAY == 0
SATURDAY == 6
DayOfWeek == SUNDAY..SATURDAY

\* Object.values of a string enum
ObjectValues(e) == [i \in 1..Len(e) |-> e[i].value]

\* Object.keys of a string enum
ObjectKeys(e) == [i \in 1..Len(e) |-> e[i].key]

----------------------------------------------------------------------------
(* Numbers handed to the numeric guards are counted in halves, so that a   *)
(* number that is no integer (1.5) is an input as well.                    *)

Halves(n) == 2 * n

\* Number.isInteger
NumberIsInteger(v) == v % 2 = 0

----------------------------------------------------------------------------
(* Type guards *)

isTimeWindow(value) == Includes(ObjectValues(TimeWindowEnum), value)

\* a plausible slip: the upper bound of isDayOfWeek copied
isQualityRating_dayBound(value) ==
    value >= Halves(0) /\ value <= Halves(6) /\ NumberIsInteger(value)

isQualityRating(value) ==
    value >= Halves(0) /\ value <= Halves(3) /\ NumberIsInteger(value)

isIntegrationMethod(value) == value = "Euler" \/ value = "RK4"

\* a plausible slip: the names of the members instead of their values
isNotificationChannel_keys(value) ==
    Includes(ObjectKeys(NotificationChannelEnum), value)

isNotificationChannel(value) ==
    Includes(ObjectValues(NotificationChannelEnum), value)

isDayOfWeek(value) ==
    value >= Halves(0) /\ value <= Halves(6) /\ NumberIsInteger(value)

----------------------------------------------------------------------------
(* Calls of the type guards *)

NumberInputs == Halves(-MaxNumber)..Halves(MaxNumber)

StringInputs ==
    Range(ObjectKeys(TimeWindowEnum)) \cup Range(ObjectValues(TimeWindowEnum))
    \cup Range(ObjectKeys(IntegrationMethodEnum))
    \cup Range(ObjectValues(IntegrationMethodEnum))
    \cup Range(ObjectKeys(NotificationChannelEnum))
    \cup Range(ObjectValues(NotificationChannelEnum))
    \cup {"", "any", "Morning", "MIDNIGHT", "euler", "rk4", "Email", "in_app",
          "sms"}

CoreIdle ==
    /\ checkIn = NoCheckIn
    /\ slot = NoSlot
    /\ habit = NoHabit
    /\ slots = <<>>
    /\ windows = <<>>
    /\ rounds = 0

InitGuards ==
    /\ AppIdle
    /\ num \in NumberInputs
    /\ str \in StringInputs
    /\ CoreIdle
    /\ heap = <<>>
    /\ argRefs = <<>>
    /\ proc = <<>>
    /\ cells = <<>>
    /\ partial = <<>>
    /\ called = "none"
    /\ ret = "none"

GuardReturns(name, result) ==
    /\ called' = name
    /\ ret' = result
    /\ UNCHANGED <<app, core, aux>>

CallIsTimeWindow == GuardReturns("isTimeWindow", isTimeWindow(str))

CallIsQualityRating == GuardReturns("isQualityRating", isQualityRating(num))

CallIsIntegrationMethod ==
    GuardReturns("isIntegrationMethod", isIntegrationMethod(str))

CallIsNotificationChannel ==
    GuardReturns("isNotificationChannel", isNotificationChannel(str))

CallIsDayOfWeek == GuardReturns("isDayOfWeek", isDayOfWeek(num))

NextGuards ==
    \/ CallIsTimeWindow
    \/ CallIsQualityRating
    \/ CallIsIntegrationMethod
    \/ CallIsNotificationChannel
    \/ CallIsDayOfWeek

SpecGuards == InitGuards /\ [][NextGuards]_vars

\* C13: for every integer v, negative values and values such as 7 included,
\* isQualityRating(v) is true if and only if v is in {0,1,2,3} and
\* isDayOfWeek(v) is true if and only if v is in {0,...,6}; both return a
\* boolean for every input.
C13_NumericGuardsExact ==
    /\ (called = "isQualityRating" /\ NumberIsInteger(num))
        => (ret = (num \in {Halves(q) : q \in QualityRating}))
    /\ (called = "isDayOfWeek" /\ NumberIsInteger(num))
        => (ret = (num \in {Halves(d) : d \in DayOfWeek}))
    /\ called \in {"isQualityRating", "isDayOfWeek"} => ret \in BOOLEAN

C13_Witness ==
    /\ called = "isQualityRating"
    /\ num = Halves(7)
    /\ ret = FALSE

\* C14: the string guards accept exactly the members of their vocabulary and
\* reject every other string: isTimeWindow the six time windows,
\* isIntegrationMethod the integration methods EULER ("Euler") and RK4 ("RK4"),
\* isNotificationChannel the channels EMAIL ("email"), PUSH ("push") and
\* IN_APP ("in-app").
C14_StringGuardsExact ==
    /\ called = "isTimeWindow"
        => (ret = (str \in {"EARLY_MORNING", "MORNING", "AFTERNOON", "EVENING",
                            "NIGHT", "ANY"}))
    /\ called = "isIntegrationMethod" => (ret = (str \in {"Euler", "RK4"}))
    /\ called = "isNotificationChannel"
        => (ret = (str \in {"email", "push", "in-app"}))

C14_Witness ==
    /\ called = "isNotificationChannel"
    /\ str = "in-app"
    /\ ret = TRUE

----------------------------------------------------------------------------
(* The validation functions on objects held by reference.  The heap is the *)
(* array of the caller's objects, a reference is an index into it; a call  *)
(* yields the heap it leaves and the value it returns (a boolean, or the   *)
(* reference of the array it returns).                                     *)

Outcome(h, r) == [heap |-> h, ret |-> r]

\* a plausible slip: the duplicates are removed from the argument itself,
\* which is returned
validateTimeWindowOnHeap_inPlace(h, refs) ==
    Outcome([h EXCEPT ![refs[1]] = validateTimeWindow(h[refs[1]])], refs[1])

\* [TimeWindow.ANY] and Array.from(...) both allocate the array returned
validateTimeWindowOnHeap(h, refs) ==
    Outcome(Append(h, validateTimeWindow(h[refs[1]])), Len(h) + 1)

validateCheckInOnHeap(h, refs) ==
    Outcome(h, validateCheckIn(h[refs[1]]))

validateSlotDurationOnHeap(h, refs) ==
    Outcome(h, validateSlotDuration(h[refs[1]], h[refs[2]]))

validateNoSlotOverlapOnHeap(h, refs) ==
    Outcome(h, validateNoSlotOverlap(h[refs[1]]))

HeapIdle ==
    /\ CoreIdle
    /\ num = 0
    /\ str = ""
    /\ proc = <<>>
    /\ cells = <<>>
    /\ partial = <<>>
    /\ ret = "none"

InitHeap ==
    /\ AppIdle
    /\ HeapIdle
    /\ \/ /\ called = "for validateTimeWindow"
          /\ heap \in {<<w>> : w \in WindowArrays}
          /\ argRefs = <<1>>
       \/ /\ called = "for validateCheckIn"
          /\ heap \in {<<c>> : c \in PartialCheckIns}
          /\ argRefs = <<1>>
       \/ /\ called = "for validateSlotDuration"
          /\ heap \in {<<s, h>> : s \in SpanSlots, h \in Habits}
          /\ argRefs = <<1, 2>>
       \/ /\ called = "for validateNoSlotOverlap"
          /\ heap \in {<<a>> : a \in SlotArrays}
          /\ argRefs = <<1>>

HeapCall(name, outcome) ==
    /\ called = "for " \o name
    /\ called' = name
    /\ heap' = outcome.heap
    /\ ret' = outcome.ret
    /\ UNCHANGED <<app, core, num, str, argRefs, proc, cells, partial>>

HeapValidateTimeWindow ==
    HeapCall("validateTimeWindow", validateTimeWindowOnHeap(heap, argRefs))

HeapValidateCheckIn ==
    HeapCall("validateCheckIn", validateCheckInOnHeap(heap, argRefs))

HeapValidateSlotDuration ==
    HeapCall("validateSlotDuration", validateSlotDurationOnHeap(heap, argRefs))

HeapValidateNoSlotOverlap ==
    HeapCall("validateNoSlotOverlap", validateNoSlotOverlapOnHeap(heap, argRefs))

NextHeap ==
    \/ HeapValidateTimeWindow
    \/ HeapValidateCheckIn
    \/ HeapValidateSlotDuration
    \/ HeapValidateNoSlotOverlap

SpecHeap == InitHeap /\ [][NextHeap]_vars

\* C15: no validator or normalizer modifies its argument: across every call
\* each object the caller holds keeps its elements, their order and its field
\* values, and validateTimeWindow returns a fresh array, not its argument.
C15_ArgumentsUnchanged ==
    [][/\ Len(heap') >= Len(heap)
       /\ \A r \in 1..Len(heap) : heap'[r] = heap[r]
       /\ called' = "validateTimeWindow"
           => /\ ret' \in 1..Len(heap')
              /\ ret' \notin 1..Len(heap)
              /\ heap'[ret'] = validateTimeWindow(heap[argRefs[1]])
       /\ called' # "validateTimeWindow" => ret' \in BOOLEAN]_vars

C15_Witness ==
    /\ called = "validateTimeWindow"
    /\ heap[argRefs[1]] = <<"MORNING", "EVENING", "MORNING">>
    /\ ret # argRefs[1]
    /\ heap[ret] = <<"MORNING", "EVENING">>

----------------------------------------------------------------------------
(* Concurrent callers.  Each caller runs one validation function on its    *)
(* own arguments; the steps of the callers interleave at every statement,  *)
(* which covers the run-to-completion order of a single thread.  The local *)
(* variables of a call (i, j, unique) live in the frame of that call.      *)

Callers == {"c1", "c2"}

\* a plausible slip: i, j and unique declared at module level, one frame for
\* all calls
Frame_shared(c) == CHOOSE d \in Callers : TRUE

\* let i, let j, const unique: a call's own frame
Frame(c) == c

EmptyFrame == [i |-> 0, j |-> 0, unique |-> <<>>]

\* the test of one pair of slots in validateNoSlotOverlap
NoOverlapPair(s1, s2) ==
    s1.endTime <= s2.startTime \/ s2.endTime <= s1.startTime

Arguments(w, c, s, h, a) ==
    [windows |-> w, checkIn |-> c, slot |-> s, habit |-> h, slots |-> a]

CallSlots == {ScheduledSlot(0, 1), ScheduledSlot(1, 2), ScheduledSlot(0, 2)}
CallWindows == {"MORNING", ANY}

Call(fn, arg) ==
    [pc |-> "idle", fn |-> fn, arg |-> arg, ret |-> "none",
     interleaved |-> FALSE]

CallerInits ==
    {Call("validateTimeWindow", Arguments(w, NoCheckIn, NoSlot, NoHabit, <<>>)) :
        w \in ArraysUpTo(CallWindows, MaxCallLen)}
    \cup
    {Call("validateCheckIn", Arguments(<<>>, c, NoSlot, NoHabit, <<>>)) :
        c \in PartialCheckIns}
    \cup
    {Call("validateSlotDuration", Arguments(<<>>, NoCheckIn, s, h, <<>>)) :
        s \in CallSlots, h \in Habits}
    \cup
    {Call("validateNoSlotOverlap", Arguments(<<>>, NoCheckIn, NoSlot, NoHabit, a)) :
        a \in ArraysUpTo(CallSlots, MaxCallLen)}

InitCallers ==
    /\ AppIdle
    /\ proc \in [Callers -> CallerInits]
    /\ cells = [c \in Callers |-> EmptyFrame]
    /\ CoreIdle
    /\ num = 0
    /\ str = ""
    /\ heap = <<>>
    /\ argRefs = <<>>
    /\ partial = <<>>
    /\ called = "none"
    /\ ret = "none"

\* another call is in progress
OthersRunning(c) ==
    \E d \in Callers \ {c} : proc[d].pc \notin {"idle", "done"}

Goto(c, pc) ==
    proc' = [proc EXCEPT ![c].pc = pc,
                         ![c].interleaved = @ \/ OthersRunning(c)]

Return(c, value) ==
    proc' = [proc EXCEPT ![c].pc = "done", ![c].ret = value,
                         ![c].interleaved = @ \/ OthersRunning(c)]

CallersFrame == UNCHANGED <<app, core, called, ret, num, str, heap, argRefs, partial>>

\* validateCheckIn and validateSlotDuration: one statement each
RunValidateCheckIn(c) ==
    /\ proc[c].pc = "idle" /\ proc[c].fn = "validateCheckIn"
    /\ Return(c, validateCheckIn(proc[c].arg.checkIn))
    /\ UNCHANGED cells
    /\ CallersFrame

RunValidateSlotDuration(c) ==
    /\ proc[c].pc = "idle" /\ proc[c].fn = "validateSlotDuration"
    /\ Return(c, validateSlotDuration(proc[c].arg.slot, proc[c].arg.habit))
    /\ UNCHANGED cells
    /\ CallersFrame

\* validateTimeWindow: the length test and the assignment of unique ...
EnterValidateTimeWindow(c) ==
    /\ proc[c].pc = "idle" /\ proc[c].fn = "validateTimeWindow"
    /\ IF Len(proc[c].arg.windows) = 0
       THEN /\ Return(c, <<ANY>>)
            /\ UNCHANGED cells
       ELSE /\ Goto(c, "unique")
            /\ cells' = [cells EXCEPT
                   ![Frame(c)].unique = ArrayFromSet(proc[c].arg.windows)]
    /\ CallersFrame

\* ... then the test for ANY and the return
FinishValidateTimeWindow(c) ==
    /\ proc[c].pc = "unique"
    /\ IF Includes(cells[Frame(c)].unique, ANY)
       THEN Return(c, <<ANY>>)
       ELSE Return(c, cells[Frame(c)].unique)
    /\ UNCHANGED cells
    /\ CallersFrame

\* validateNoSlotOverlap: let i = 0 (and j = i + 1 on entering the body) ...
EnterValidateNoSlotOverlap(c) ==
    /\ proc[c].pc = "idle" /\ proc[c].fn = "validateNoSlotOverlap"
    /\ Goto(c, "loop")
    /\ cells' = [cells EXCEPT ![Frame(c)].i = 1, ![Frame(c)].j = 2]
    /\ CallersFrame

\* ... then one test of the loop conditions and one pass of the inner body
StepValidateNoSlotOverlap(c) ==
    /\ proc[c].pc = "loop"
    /\ LET a == proc[c].arg.slots
           i == cells[Frame(c)].i
           j == cells[Frame(c)].j
       IN  IF i > Len(a)
           THEN /\ Return(c, TRUE)
                /\ UNCHANGED cells
           ELSE IF j > Len(a)
           THEN /\ Goto(c, "loop")
                /\ cells' = [cells EXCEPT ![Frame(c)].i = i + 1,
                                          ![Frame(c)].j = i + 2]
           ELSE IF ~NoOverlapPair(a[i], a[j])
           THEN /\ Return(c, FALSE)
                /\ UNCHANGED cells
           ELSE /\ Goto(c, "loop")
                /\ cells' = [cells EXCEPT ![Frame(c)].j = j + 1]
    /\ CallersFrame

NextCallers ==
    \E c \in Callers :
        \/ RunValidateCheckIn(c)
        \/ RunValidateSlotDuration(c)
        \/ EnterValidateTimeWindow(c)
        \/ FinishValidateTimeWindow(c)
        \/ EnterValidateNoSlotOverlap(c)
        \/ StepValidateNoSlotOverlap(c)

SpecCallers == InitCallers /\ [][NextCallers]_vars

\* what a call returns when it runs alone
ResultAlone(fn, arg) ==
    CASE fn = "validateTimeWindow" -> validateTimeWindow(arg.windows)
      [] fn = "validateCheckIn" -> validateCheckIn(arg.checkIn)
      [] fn = "validateSlotDuration" -> validateSlotDuration(arg.slot, arg.habit)
      [] fn = "validateNoSlotOverlap" -> validateNoSlotOverlap(arg.slots)

\* C16: in every interleaving of the calls of concurrent callers, each call
\* returns the result determined by its own arguments alone, the result it
\* returns when it runs in isolation.
C16_ResultByOwnArguments ==
    \A c \in Callers :
        proc[c].pc = "done" => proc[c].ret = ResultAlone(proc[c].fn, proc[c].arg)

C16_Witness ==
    \E c, d \in Callers :
        /\ c # d
        /\ proc[c].pc = "done" /\ proc[d].pc = "done"
        /\ proc[c].interleaved /\ proc[d].interleaved
        /\ proc[c].fn = "validateNoSlotOverlap"
        /\ proc[d].fn = "validateNoSlotOverlap"
        /\ proc[c].ret = FALSE /\ proc[d].ret = TRUE
        /\ Len(proc[c].arg.slots) = 2 /\ Len(proc[d].arg.slots) = 2

----------------------------------------------------------------------------
(* User preferences.  Fractions (riskThreshold, alertThreshold, timeStep)  *)
(* are counted in hundredths; an "HH:mm" string is the tuple of its four   *)
(* digits.                                                                 *)

TimeString(h, m) == <<h \div 10, h % 10, m \div 10, m % 10>>

\* the groups of UserPreferences and the fields of each
PreferenceSchema ==
    [scheduling |-> {"dailyStartTime", "dailyEndTime", "timeSlotGranularity"},
     prediction |-> {"coldStartThreshold", "recentWindowSize", "riskThreshold"},
     adaptiveFrequency |-> {"enableSM2", "minInterval", "maxInterval"},
     simulation |-> {"enabled", "integrationMethod", "timeStep"},
     notifications |-> {"enableInterventionAlerts", "alertThreshold", "channels"}]

Groups == DOMAIN PreferenceSchema

FieldPaths == {<<g, f>> : g \in Groups, f \in UNION {PreferenceSchema[x] : x \in Groups}}
                 \cap UNION {{<<g, f>> : f \in PreferenceSchema[g]} : g \in Groups}

\* a plausible slip: the thresholds written as percentages
DEFAULT_USER_PREFERENCES_percent ==
    [scheduling |->
        [dailyStartTime |-> TimeString(6, 0),
         dailyEndTime |-> TimeString(23, 0),
         timeSlotGranularity |-> 15],
     prediction |->
        [coldStartThreshold |-> 7, recentWindowSize |-> 7, riskThreshold |-> 8000],
     adaptiveFrequency |->
        [enableSM2 |-> TRUE, minInterval |-> 1, maxInterval |-> 90],
     simulation |->
        [enabled |-> FALSE, integrationMethod |-> "Euler", timeStep |-> 5],
     notifications |->
        [enableInterventionAlerts |-> TRUE, alertThreshold |-> 8000,
         channels |-> <<"in-app">>]]

\* a plausible slip: the coarsest granularity and the end of the NIGHT window
DEFAULT_USER_PREFERENCES_coarse ==
    [scheduling |->
        [dailyStartTime |-> TimeString(6, 0),
         dailyEndTime |-> TimeString(23, 59),
         timeSlotGranularity |-> 30],
     prediction |->
        [coldStartThreshold |-> 7, recentWindowSize |-> 7, riskThreshold |-> 80],
     adaptiveFrequency |->
        [enableSM2 |-> TRUE, minInterval |-> 1, maxInterval |-> 90],
     simulation |->
        [enabled |-> FALSE, integrationMethod |-> "Euler", timeStep |-> 5],
     notifications |->
        [enableInterventionAlerts |-> TRUE, alertThreshold |-> 80,
         channels |-> <<"in-app">>]]

DEFAULT_USER_PREFERENCES ==
    [scheduling |->
        [dailyStartTime |-> TimeString(6, 0),
         dailyEndTime |-> TimeString(23, 0),
         timeSlotGranularity |-> 15],
     prediction |->
        [coldStartThreshold |-> 7, recentWindowSize |-> 7, riskThreshold |-> 80],
     adaptiveFrequency |->
        [enableSM2 |-> TRUE, minInterval |-> 1, maxInterval |-> 90],
     simulation |->
        [enabled |-> FALSE, integrationMethod |-> "Euler", timeStep |-> 5],
     notifications |->
        [enableInterventionAlerts |-> TRUE, alertThreshold |-> 80,
         channels |-> <<"in-app">>]]

\* "HH:mm format"
IsTimeFormat(t) ==
    /\ Len(t) = 4
    /\ \A k \in 1..4 : t[k] \in 0..9
    /\ 10 * t[1] + t[2] <= 23
    /\ 10 * t[3] + t[4] <= 59

\* a plausible slip: the upper bounds of the three fractions left out
FieldInBound_noUpper(g, f, v) ==
    CASE f \in {"dailyStartTime", "dailyEndTime"} -> IsTimeFormat(v)
      [] f = "timeSlotGranularity" -> v \in {5, 15, 30}
      [] f = "coldStartThreshold" -> v >= 1 /\ v <= 30
      [] f = "recentWindowSize" -> v >= 3 /\ v <= 30
      [] f = "riskThreshold" -> v >= 0
      [] f \in {"enableSM2", "enabled", "enableInterventionAlerts"} -> v \in BOOLEAN
      [] f = "minInterval" -> v >= 1 /\ v <= 7
      [] f = "maxInterval" -> v >= 7 /\ v <= 365
      [] f = "integrationMethod" -> isIntegrationMethod(v)
      [] f = "timeStep" -> v >= 1
      [] f = "alertThreshold" -> v >= 0
      [] f = "channels" -> \A k \in 1..Len(v) : isNotificationChannel(v[k])

\* the bound documented for each field of the preference interfaces
FieldInBound(g, f, v) ==
    CASE f \in {"dailyStartTime", "dailyEndTime"} -> IsTimeFormat(v)
      [] f = "timeSlotGranularity" -> v \in {5, 15, 30}
      [] f = "coldStartThreshold" -> v >= 1 /\ v <= 30
      [] f = "recentWindowSize" -> v >= 3 /\ v <= 30
      [] f = "riskThreshold" -> v >= 0 /\ v <= 100
      [] f \in {"enableSM2", "enabled", "enableInterventionAlerts"} -> v \in BOOLEAN
      [] f = "minInterval" -> v >= 1 /\ v <= 7
      [] f = "maxInterval" -> v >= 7 /\ v <= 365
      [] f = "integrationMethod" -> isIntegrationMethod(v)
      [] f = "timeStep" -> v >= 1 /\ v <= 20
      [] f = "alertThreshold" -> v >= 0 /\ v <= 100
      [] f = "channels" -> \A k \in 1..Len(v) : isNotificationChannel(v[k])

\* the field g.f is present in the partial object p
Supplied(p, g, f) == g \in DOMAIN p /\ f \in DOMAIN p[g]

----------------------------------------------------------------------------
(* Preference resolution, as the design describes it: a supplied value out *)
(* of its bound is a caller error; otherwise every omitted field is filled *)
(* from the default table, field by field.                                 *)

Resolved(v) == [error |-> "none", value |-> v]
CallerError == [error |-> "out-of-range", value |-> <<>>]

\* the fields of p laid over the default table, field by field
OverDefaults(p) ==
    [g \in Groups |->
        [f \in PreferenceSchema[g] |->
            IF Supplied(p, g, f) THEN p[g][f]
            ELSE DEFAULT_USER_PREFERENCES[g][f]]]

resolvePreferences(p) ==
    IF \E path \in FieldPaths :
           /\ Supplied(p, path[1], path[2])
           /\ ~FieldInBound(path[1], path[2], p[path[1]][path[2]])
    THEN CallerError
    ELSE Resolved(OverDefaults(p))

----------------------------------------------------------------------------
(* Preference objects of a caller.  A partial one has at most MaxSupplied  *)
(* fields, each with one of three values (the default, another value      *)
(* within the bound, a value out of the bound where the type has one),     *)
(* and possibly a group that is present with no field.  A complete one     *)
(* has every field, at most MaxSupplied of them away from the default.     *)

Candidates(f) ==
    CASE f = "dailyStartTime" -> <<TimeString(6, 0), TimeString(8, 30), TimeString(25, 0)>>
      [] f = "dailyEndTime" -> <<TimeString(23, 0), TimeString(21, 0), TimeString(12, 75)>>
      [] f = "timeSlotGranularity" -> <<15, 30, 10>>
      [] f = "coldStartThreshold" -> <<7, 14, 0>>
      [] f = "recentWindowSize" -> <<7, 3, 31>>
      [] f = "riskThreshold" -> <<80, 50, 150>>
      [] f = "enableSM2" -> <<TRUE, FALSE, FALSE>>
      [] f = "minInterval" -> <<1, 7, 0>>
      [] f = "maxInterval" -> <<90, 365, 366>>
      [] f = "enabled" -> <<FALSE, TRUE, TRUE>>
      [] f = "integrationMethod" -> <<"Euler", "RK4", "EULER">>
      [] f = "timeStep" -> <<5, 20, 25>>
      [] f = "enableInterventionAlerts" -> <<TRUE, FALSE, FALSE>>
      [] f = "alertThreshold" -> <<80, 0, 101>>
      [] f = "channels" -> << <<"in-app">>, <<"email", "push">>, <<"sms">> >>

\* the object with the fields of paths, valued by pick, and the groups of
\* empty present with no field
PartialObject(paths, pick, empty) ==
    [g \in {path[1] : path \in paths} \cup empty |->
        [f \in {path[2] : path \in {q \in paths : q[1] = g}} |->
            Candidates(f)[pick[<<g, f>>]]]]

PartialInputs ==
    UNION {{PartialObject(paths, pick, empty) :
                pick \in [paths -> 1..3],
                empty \in {{}} \cup {{g} : g \in Groups}} :
           paths \in {P \in SUBSET FieldPaths : Cardinality(P) <= MaxSupplied}}

CompleteInputs ==
    UNION {{OverDefaults(PartialObject(paths, pick, {})) : pick \in [paths -> 1..3]} :
           paths \in {P \in SUBSET FieldPaths : Cardinality(P) <= MaxSupplied}}

InitPreferences ==
    /\ AppIdle
    /\ partial \in PartialInputs \cup CompleteInputs
    /\ CoreIdle
    /\ num = 0
    /\ str = ""
    /\ heap = <<>>
    /\ argRefs = <<>>
    /\ proc = <<>>
    /\ cells = <<>>
    /\ called = "none"
    /\ ret = "none"

CallResolvePreferences ==
    /\ called = "none"
    /\ called' = "resolvePreferences"
    /\ ret' = resolvePreferences(partial)
    /\ rounds' = 1
    /\ UNCHANGED <<app, checkIn, slot, habit, slots, windows, aux>>

\* the resolved preferences handed to resolution again
ResolveResult ==
    /\ called = "resolvePreferences"
    /\ ret.error = "none"
    /\ rounds < MaxRounds
    /\ partial' = ret.value
    /\ ret' = resolvePreferences(ret.value)
    /\ rounds' = rounds + 1
    /\ UNCHANGED <<app, checkIn, slot, habit, slots, windows, called,
                   num, str, heap, argRefs, proc, cells>>

NextPreferences == CallResolvePreferences \/ ResolveResult

SpecPreferences == InitPreferences /\ [][NextPreferences]_vars

----------------------------------------------------------------------------
(* Claims on preference resolution *)

\* every field p supplies is within its documented bound
SuppliedInBound(p) ==
    \A path \in FieldPaths :
        Supplied(p, path[1], path[2])
            => FieldInBound(path[1], path[2], p[path[1]][path[2]])

\* v has the five groups, each with every one of its fields
FullyPopulated(v) ==
    /\ DOMAIN v = {"scheduling", "prediction", "adaptiveFrequency",
                   "simulation", "notifications"}
    /\ DOMAIN v.scheduling = {"dailyStartTime", "dailyEndTime", "timeSlotGranularity"}
    /\ DOMAIN v.prediction = {"coldStartThreshold", "recentWindowSize", "riskThreshold"}
    /\ DOMAIN v.adaptiveFrequency = {"enableSM2", "minInterval", "maxInterval"}
    /\ DOMAIN v.simulation = {"enabled", "integrationMethod", "timeStep"}
    /\ DOMAIN v.notifications = {"enableInterventionAlerts", "alertThreshold", "channels"}

OutOfRange(p) ==
    \/ Supplied(p, "prediction", "riskThreshold") /\ p.prediction.riskThreshold > 100
    \/ Supplied(p, "notifications", "alertThreshold")
          /\ p.notifications.alertThreshold > 100
    \/ Supplied(p, "simulation", "timeStep") /\ p.simulation.timeStep > 20
    \/ Supplied(p, "adaptiveFrequency", "minInterval")
          /\ p.adaptiveFrequency.minInterval < 1
    \/ Supplied(p, "adaptiveFrequency", "maxInterval")
          /\ p.adaptiveFrequency.maxInterval > 365
    \/ Supplied(p, "prediction", "coldStartThreshold")
          /\ p.prediction.coldStartThreshold < 1
    \/ Supplied(p, "prediction", "recentWindowSize")
          /\ p.prediction.recentWindowSize > 30
    \/ Supplied(p, "scheduling", "timeSlotGranularity")
          /\ p.scheduling.timeSlotGranularity \notin {5, 15, 30}

----------------------------------------------------------------------------
(* The default table against the documented bounds *)

\* minutes since midnight of an "HH:mm" string
MinutesOfDay(t) == (10 * t[1] + t[2]) * 60 + 10 * t[3] + t[4]

\* C21: every value of the default preference table lies within the
\* documented bound of its field (granularity 15 in {5,15,30}, thresholds
\* 7 in [1,30] and [3,30], riskThreshold and alertThreshold 0.8 in [0,1],
\* minInterval 1 in [1,7], maxInterval 90 in [7,365], timeStep 0.05 in
\* [0.01,0.2]), minInterval <= maxInterval, and 06:00 is before 23:00.
C21_DefaultsInBound ==
    partial = DEFAULT_USER_PREFERENCES =>
        /\ partial.scheduling.timeSlotGranularity = 15
        /\ partial.scheduling.timeSlotGranularity \in {5, 15, 30}
        /\ partial.prediction.coldStartThreshold = 7
        /\ partial.prediction.coldStartThreshold \in 1..30
        /\ partial.prediction.recentWindowSize = 7
        /\ partial.prediction.recentWindowSize \in 3..30
        /\ partial.prediction.riskThreshold = 80
        /\ partial.prediction.riskThreshold \in 0..100
        /\ partial.notifications.alertThreshold = 80
        /\ partial.notifications.alertThreshold \in 0..100
        /\ partial.adaptiveFrequency.minInterval = 1
        /\ partial.adaptiveFrequency.minInterval \in 1..7
        /\ partial.adaptiveFrequency.maxInterval = 90
        /\ partial.adaptiveFrequency.maxInterval \in 7..365
        /\ partial.simulation.timeStep = 5
        /\ partial.simulation.timeStep \in 1..20
        /\ partial.adaptiveFrequency.minInterval <= partial.adaptiveFrequency.maxInterval
        /\ partial.scheduling.dailyStartTime = <<0, 6, 0, 0>>
        /\ partial.scheduling.dailyEndTime = <<2, 3, 0, 0>>
        /\ IsTimeFormat(partial.scheduling.dailyStartTime)
        /\ IsTimeFormat(partial.scheduling.dailyEndTime)
        /\ MinutesOfDay(partial.scheduling.dailyStartTime)
              < MinutesOfDay(partial.scheduling.dailyEndTime)
        /\ \A path \in FieldPaths :
              FieldInBound(path[1], path[2], partial[path[1]][path[2]])

\* the default table itself is the preference object at hand
C21_Witness ==
    /\ partial = DEFAULT_USER_PREFERENCES
    /\ FullyPopulated(partial)
    /\ partial.simulation.integrationMethod = "Euler"
    /\ partial.notifications.channels = <<"in-app">>

----------------------------------------------------------------------------
(* The persisted records of one user and the spaced-repetition state of a  *)
(* habit.  easinessFactor is counted in hundredths (2.5 is 250).           *)

\* a plausible slip: the bound of a minute of the day taken for the interval
IntervalBounds_minutes == [min |-> 1, max |-> 1439]

\* Habit.interval: "Days; [1, 365]"
IntervalBounds == [min |-> 1, max |-> 365]

\* Habit.easinessFactor: "[1.3, 3.0]"
EasinessBounds == [min |-> 130, max |-> 300]

\* AdaptiveFrequencyPreferences.minInterval: "days; [1, 7]"
MinIntervalBounds == [min |-> 1, max |-> 7]

PersistedHabit(name, duration, priority, difficulty, preferredTimeWindows, easinessFactor, interval, repetitions, streak) ==
    [name |-> name, duration |-> duration, priority |-> priority,
     difficulty |-> difficulty, preferredTimeWindows |-> preferredTimeWindows,
     easinessFactor |-> easinessFactor, interval |-> interval,
     repetitions |-> repetitions, streak |-> streak]

PersistedCheckIn(habitID, c) ==
    [habitID |-> habitID, success |-> c.success, qualityRating |-> c.qualityRating]

\* the check-ins a caller records: those validateCheckIn accepts
RecordableCheckIns == {c \in PartialCheckIns : validateCheckIn(c)}

Clamp(v, bounds) ==
    IF v < bounds.min THEN bounds.min
    ELSE IF v > bounds.max THEN bounds.max
    ELSE v

\* the adjustments of the easiness factor by one check-in, in hundredths
EasinessAdjustments == {-80, -14, 0, 10}

\* interval times easiness factor, in whole days, rounded down or up
Grown(interval, easinessFactor, up) ==
    IF up /\ (interval * easinessFactor) % 100 /= 0
    THEN (interval * easinessFactor) \div 100 + 1
    ELSE (interval * easinessFactor) \div 100

\* the quality of a check-in counts as at least GOOD
AtLeastGood(c) == TypeofIsNumber(c.qualityRating) /\ c.qualityRating.val >= GOOD

\* the transition of the spaced-repetition state on one check-in
nextSpacedRepetition(h, c, minInterval, adjustment, up) ==
    [h EXCEPT
        !.repetitions = IF AtLeastGood(c) THEN @ + 1 ELSE 0,
        !.interval = IF AtLeastGood(c)
                     THEN Clamp(Grown(h.interval, h.easinessFactor, up), IntervalBounds)
                     ELSE minInterval,
        !.easinessFactor = Clamp(@ + adjustment, EasinessBounds),
        !.streak = IF StrictEq(c.success, JsBool(TRUE)) THEN @ + 1 ELSE 0]

EmptyStore(minInterval, habits) ==
    [minInterval |-> minInterval, habits |-> habits, checkIns |-> <<>>,
     schedules |-> <<>>, predictions |-> <<>>, snapshots |-> <<>>]

\* a check-in of habit id is recorded: the check-in is appended and the
\* habit's spaced-repetition state moves on
RecordCheckIn(id, c) ==
    /\ rounds < MaxOps
    /\ id \in DOMAIN store.habits
    /\ \E adjustment \in EasinessAdjustments, up \in BOOLEAN :
          store' = [store EXCEPT
              !.checkIns = Append(@, PersistedCheckIn(id, c)),
              !.habits[id] = nextSpacedRepetition(@, c, store.minInterval,
                                                  adjustment, up)]
    /\ rounds' = rounds + 1
    /\ called' = "recordCheckIn"
    /\ UNCHANGED <<checkIn, slot, habit, slots, windows, ret, aux, openIndex,
                   ticking, listeners, windowListeners, frames, comps, calls>>

\* habits that start within the documented bounds
StartingHabits ==
    {PersistedHabit("read", 30, 3, 3, <<"MORNING">>, e, i, r, k) :
        e \in {130, 170, 250, 300}, i \in {1, 2, 3, 200, 365},
        r \in {0, 2}, k \in {0, 3}}

StoreIdle ==
    /\ CoreIdle
    /\ AuxIdle
    /\ openIndex = 0
    /\ ticking = FALSE
    /\ listeners = {}
    /\ windowListeners = <<>>
    /\ frames = <<>>
    /\ comps = <<>>
    /\ calls = <<>>
    /\ called = "none"
    /\ ret = "none"

InitAdaptive ==
    /\ StoreIdle
    /\ store \in {EmptyStore(m, <<h>>) :
                    m \in {MinIntervalBounds.min, MinIntervalBounds.max},
                    h \in StartingHabits}

NextAdaptive == \E c \in RecordableCheckIns : RecordCheckIn(1, c)

SpecAdaptive == InitAdaptive /\ [][NextAdaptive]_vars

----------------------------------------------------------------------------
(* Claims on the spaced-repetition state *)

WithinYear(v) == IF v < 1 THEN 1 ELSE IF v > 365 THEN 365 ELSE v

\* the check-in recorded last
LastCheckIn(st) == st.checkIns[Len(st.checkIns)]

----------------------------------------------------------------------------
(* The store under all its operations: check-ins, habit update requests,   *)
(* and the records the scheduler, the predictor and the simulator append.  *)

\* a plausible slip: the update request lets the interval through
UpdatableFields_withInterval ==
    {"name", "duration", "priority", "difficulty", "preferredTimeWindows", "interval"}

\* the fields of UpdateHabitRequest, each optional
UpdatableFields ==
    {"name", "duration", "priority", "difficulty", "preferredTimeWindows"}

\* the value a request supplies for a field
RequestedValue(f) ==
    CASE f = "name" -> "run"
      [] f = "duration" -> 45
      [] f = "priority" -> 5
      [] f = "difficulty" -> 1
      [] f = "preferredTimeWindows" -> <<"EVENING">>
      [] f = "interval" -> 30

UpdateHabitRequest(fields) == [f \in fields |-> RequestedValue(f)]

\* a habit update request is applied: the fields it supplies are set
UpdateHabit(id, request) ==
    /\ rounds < MaxOps
    /\ id \in DOMAIN store.habits
    /\ store' = [store EXCEPT !.habits[id] =
                    [f \in DOMAIN @ |->
                        IF f \in DOMAIN request THEN request[f] ELSE @[f]]]
    /\ rounds' = rounds + 1
    /\ called' = "updateHabit"
    /\ UNCHANGED <<checkIn, slot, habit, slots, windows, ret, aux, openIndex,
                   ticking, listeners, windowListeners, frames, comps, calls>>

\* a producer appends a record of its kind
AppendRecord(kind, record) ==
    /\ rounds < MaxOps
    /\ store' = [store EXCEPT ![kind] = Append(@, record)]
    /\ rounds' = rounds + 1
    /\ called' = "append"
    /\ UNCHANGED <<checkIn, slot, habit, slots, windows, ret, aux, openIndex,
                   ticking, listeners, windowListeners, frames, comps, calls>>

InitStore ==
    /\ StoreIdle
    /\ store = EmptyStore(MinIntervalBounds.min,
                   <<PersistedHabit("read", 30, 3, 3, <<"MORNING">>, 250, 1, 0, 0),
                     PersistedHabit("walk", 20, 2, 2, <<"ANY">>, 250, 1, 0, 0)>>)

RecordForHabit ==
    /\ rounds < MaxStoreOps
    /\ \E id \in 1..2, c \in RecordableCheckIns : RecordCheckIn(id, c)

RequestUpdate ==
    /\ rounds < MaxStoreOps
    /\ \E id \in 1..2, fields \in SUBSET UpdatableFields :
          /\ Cardinality(fields) \in 1..2
          /\ UpdateHabit(id, UpdateHabitRequest(fields))

AppendProduced ==
    /\ rounds < MaxStoreOps
    /\ \/ AppendRecord("schedules", [slots |-> <<ScheduledSlot(480, 510)>>])
       \/ AppendRecord("predictions", [habitID |-> 1, failureProbability |-> 50])
       \/ AppendRecord("snapshots", [habitID |-> 1, drag |-> 50])

NextStore == RecordForHabit \/ RequestUpdate \/ AppendProduced

SpecStore == InitStore /\ [][NextStore]_vars

----------------------------------------------------------------------------
(* Claims on what the operations of the store change *)

SpacedRepetitionFields == {"easinessFactor", "interval", "repetitions", "streak"}
DescriptiveFields == {"name", "duration", "priority", "difficulty", "preferredTimeWindows"}

\* the records of a log are kept as they are and new ones come after them
AppendedOnly(old, new) ==
    /\ Len(new) >= Len(old)
    /\ \A k \in 1..Len(old) : new[k] = old[k]

LogsAppendedOnly ==
    /\ AppendedOnly(store.checkIns, store'.checkIns)
    /\ AppendedOnly(store.schedules, store'.schedules)
    /\ AppendedOnly(store.predictions, store'.predictions)
    /\ AppendedOnly(store.snapshots, store'.snapshots)

\* in this step a check-in of habit id is recorded
CheckInRecordedFor(id) ==
    /\ Len(store'.checkIns) = Len(store.checkIns) + 1
    /\ LastCheckIn(store').habitID = id

\* a habit's spaced-repetition state changes only with a check-in of it
StateChangesOnlyOnCheckIn ==
    \A id \in DOMAIN store.habits :
        (\E f \in SpacedRepetitionFields : store'.habits[id][f] /= store.habits[id][f])
            => CheckInRecordedFor(id)

----------------------------------------------------------------------------
(* The FAQ accordion (part_001): const [openIndex, setOpenIndex] =         *)
(* useState<number | null>(0), and one FAQAccordion per entry of faqs.     *)

\* the number of entries of faqs
FaqCount == 5

\* openIndex when it is null
NoIndex == -1

FaqIndices == 0..(FaqCount - 1)

\* isOpen={openIndex === index}
isOpen(index) == openIndex = index

\* a plausible slip: the clicked item is opened whether it was open or not
toggle_alwaysOpen(index) == openIndex' = index

\* toggle={() => setOpenIndex(openIndex === index ? null : index)}
toggle(index) == openIndex' = IF openIndex = index THEN NoIndex ELSE index

InitFaq ==
    /\ CoreIdle
    /\ AuxIdle
    /\ store = <<>>
    /\ openIndex = 0
    /\ ticking = FALSE
    /\ listeners = {}
    /\ windowListeners = <<>>
    /\ frames = <<>>
    /\ comps = <<>>
    /\ calls = <<>>
    /\ called = "none"
    /\ ret = "none"

\* the user clicks the header of item index
Click(index) ==
    /\ rounds < MaxClicks
    /\ toggle(index)
    /\ num' = index
    /\ rounds' = rounds + 1
    /\ called' = "toggle"
    /\ UNCHANGED <<checkIn, slot, habit, slots, windows, ret, str, heap, argRefs,
                   proc, cells, partial, store, ticking, listeners,
                   windowListeners, frames, comps, calls>>

NextFaq == \E index \in FaqIndices : Click(index)

SpecFaq == InitFaq /\ [][NextFaq]_vars

\* C26: the accordion is single-select: it starts with item 0 open; in
\* every reachable state at most one item is open; a click on the open
\* item leaves no item open; a click on a closed item opens it and closes
\* the item that was open.
C26_SingleSelect ==
    /\ isOpen(0)
    /\ [](Cardinality({i \in FaqIndices : isOpen(i)}) <= 1)
    /\ [][rounds' = rounds + 1 =>
            IF openIndex = num'
            THEN \A i \in FaqIndices : openIndex' /= i
            ELSE /\ openIndex' = num'
                 /\ \A i \in FaqIndices \ {num'} : openIndex' /= i]_vars

\* item 3 was opened, closed by a second click on it, and item 1 is open now
C26_Witness ==
    /\ called = "toggle"
    /\ rounds >= 3
    /\ num = 1
    /\ isOpen(1)
    /\ Cardinality({i \in FaqIndices : isOpen(i)}) = 1

----------------------------------------------------------------------------
(* Check-ins with an absent field *)

\* C27: validateCheckIn returns false, and returns, for every partial
\* check-in with an absent field: success absent whatever the quality,
\* success = true with qualityRating absent, and success = false with
\* qualityRating absent (undefined, not null).
C27_AbsentFieldRejected ==
    (/\ called = "validateCheckIn"
     /\ \/ checkIn.success = JsUndefined
        \/ checkIn.qualityRating = JsUndefined)
        => ret = FALSE

\* a missed check-in without its optional qualityRating was rejected
C27_Witness ==
    /\ called = "validateCheckIn"
    /\ checkIn = CheckIn(JsBool(FALSE), JsUndefined)
    /\ ret = FALSE

----------------------------------------------------------------------------
(* Sub-collections and reorderings of a slot collection *)

\* the collections got from a by removing slots and reordering the rest
Rearranged(a) ==
    UNION {{[i \in 1..k |-> a[f[i]]] :
                f \in {g \in [1..k -> 1..Len(a)] :
                          \A x, y \in 1..k : x /= y => g[x] /= g[y]}} :
           k \in 0..Len(a)}

\* C30: the verdict of validateNoSlotOverlap is hereditary and independent
\* of the order: when it returns true for a collection it returns true for
\* every collection got by removing slots from it or reordering it (so a
\* rejected collection stays rejected when a slot is added).
C30_HereditaryAnyOrder ==
    (called = "validateNoSlotOverlap" /\ ret = TRUE)
        => \A t \in Rearranged(slots) : validateNoSlotOverlap(t)

\* three slots given out of order were accepted
C30_Witness ==
    /\ called = "validateNoSlotOverlap"
    /\ slots = <<ScheduledSlot(2, 3), ScheduledSlot(0, 1), ScheduledSlot(1, 2)>>
    /\ ret = TRUE
    /\ Cardinality(Rearranged(slots)) = 16

----------------------------------------------------------------------------
(* The throttled scroll hook (part_002).  The module state is ticking and  *)
(* listeners; the browser keeps the scroll listeners of window and the     *)
(* animation-frame callbacks requested and not yet run.  A wrapped         *)
(* callback is known by its component and by the handle of the frame       *)
(* requested at its mount, which is unique to the mount.                   *)

Components == {"hero", "navbar"}

Wrapped(c, id) == [comp |-> c, id |-> id]

FrameRequest(id, kind, c) == [id |-> id, kind |-> kind, comp |-> c]

ScrollFrames(fs) == {k \in 1..Len(fs) : fs[k].kind = "scroll"}

\* window.addEventListener: a listener already in the list is not added again
addEventListener(ls, fn) ==
    IF \E k \in 1..Len(ls) : ls[k] = fn THEN ls ELSE Append(ls, fn)

\* window.removeEventListener
removeEventListener(ls, fn) == SelectSeq(ls, LAMBDA l : l /= fn)

\* cancelAnimationFrame: the request with this handle, if pending, is dropped
cancelAnimationFrame(fs, id) == SelectSeq(fs, LAMBDA r : r.id /= id)

\* a plausible slip: the test of ticking left out
handleScroll_unthrottled(st) ==
    [ticking |-> TRUE,
     frames |-> Append(st.frames, FrameRequest(st.next, "scroll", "none")),
     next |-> st.next + 1]

\* handleScroll, on the flag, the pending requests and the next handle
handleScroll(st) ==
    IF ~st.ticking
    THEN [ticking |-> TRUE,
          frames |-> Append(st.frames, FrameRequest(st.next, "scroll", "none")),
          next |-> st.next + 1]
    ELSE st

\* the scroll event handed to each of the n listeners of window in turn
RECURSIVE Dispatch(_, _)
Dispatch(st, n) == IF n = 0 THEN st ELSE Dispatch(handleScroll(st), n - 1)

\* a plausible slip: the listener of window removed with any unmount
LastListenerGone_always(ls) == TRUE

\* if (listeners.size === 0) in the cleanup of the effect
LastListenerGone(ls) == Cardinality(ls) = 0

PageFrame ==
    UNCHANGED <<checkIn, slot, habit, slots, windows, ret, str, heap,
                argRefs, proc, cells, partial, store, openIndex>>

InitPage ==
    /\ CoreIdle
    /\ AuxIdle
    /\ store = <<>>
    /\ openIndex = 0
    /\ ticking = FALSE
    /\ listeners = {}
    /\ windowListeners = <<>>
    /\ frames = <<>>
    /\ comps = [c \in Components |-> [mounted |-> FALSE, rafId |-> 0]]
    /\ calls = [c \in Components |-> [total |-> 0, frame |-> 0]]
    /\ called = "none"
    /\ ret = "none"

\* the second effect of useThrottledScroll runs for component c
Mount(c) ==
    /\ ~comps[c].mounted
    /\ rounds < MaxRequests
    /\ windowListeners' = IF Cardinality(listeners) = 0
                          THEN addEventListener(windowListeners, "handleScroll")
                          ELSE windowListeners
    /\ listeners' = listeners \cup {Wrapped(c, rounds + 1)}
    /\ frames' = Append(frames, FrameRequest(rounds + 1, "initial", c))
    /\ comps' = [comps EXCEPT ![c] = [mounted |-> TRUE, rafId |-> rounds + 1]]
    /\ rounds' = rounds + 1
    /\ called' = "mount"
    /\ UNCHANGED <<ticking, calls, num>>
    /\ PageFrame

\* a plausible slip: the cleanup without cancelAnimationFrame(rafId)
Unmount_noCancel(c) ==
    /\ comps[c].mounted
    /\ listeners' = listeners \ {Wrapped(c, comps[c].rafId)}
    /\ windowListeners' = IF LastListenerGone(listeners')
                          THEN removeEventListener(windowListeners, "handleScroll")
                          ELSE windowListeners
    /\ comps' = [comps EXCEPT ![c].mounted = FALSE]
    /\ called' = "unmount"
    /\ UNCHANGED <<frames, ticking, calls, num, rounds>>
    /\ PageFrame

\* the cleanup of that effect runs for component c
Unmount(c) ==
    /\ comps[c].mounted
    /\ frames' = cancelAnimationFrame(frames, comps[c].rafId)
    /\ listeners' = listeners \ {Wrapped(c, comps[c].rafId)}
    /\ windowListeners' = IF LastListenerGone(listeners')
                          THEN removeEventListener(windowListeners, "handleScroll")
                          ELSE windowListeners
    /\ comps' = [comps EXCEPT ![c].mounted = FALSE]
    /\ called' = "unmount"
    /\ UNCHANGED <<ticking, calls, num, rounds>>
    /\ PageFrame

\* the window is scrolled: the event goes to each scroll listener of window
Scroll ==
    /\ num < MaxBurst
    /\ rounds < MaxRequests
    /\ LET st == Dispatch([ticking |-> ticking, frames |-> frames, next |-> rounds + 1],
                          Len(windowListeners))
       IN  /\ ticking' = st.ticking
           /\ frames' = st.frames
           /\ rounds' = st.next - 1
    /\ num' = num + 1
    /\ called' = "scroll"
    /\ UNCHANGED <<listeners, windowListeners, comps, calls>>
    /\ PageFrame

\* how often the callback of component c is called when the requests fs run
Invocations(fs, c) ==
    Cardinality({k \in 1..Len(fs) : fs[k].kind = "initial" /\ fs[k].comp = c})
      + Cardinality(ScrollFrames(fs))
          * Cardinality({w \in listeners : w.comp = c})

\* the browser runs the animation-frame callbacks requested so far: an
\* initial call invokes its wrapped callback, the callback of handleScroll
\* invokes every listener of the set and clears ticking
AnimationFrame ==
    /\ frames /= <<>>
    /\ frames' = <<>>
    /\ ticking' = IF ScrollFrames(frames) /= {} THEN FALSE ELSE ticking
    /\ calls' = [c \in Components |->
                    [total |-> calls[c].total + Invocations(frames, c),
                     frame |-> Invocations(frames, c)]]
    /\ num' = 0
    /\ called' = "frame"
    /\ UNCHANGED <<listeners, windowListeners, comps, rounds>>
    /\ PageFrame

NextPage ==
    \/ \E c \in Components : Mount(c)
    \/ \E c \in Components : Unmount(c)
    \/ Scroll
    \/ AnimationFrame

SpecPage == InitPage /\ [][NextPage]_vars

----------------------------------------------------------------------------
(* Claims on the throttled scroll hook *)

\* how often handleScroll is among the scroll listeners of window
Registrations ==
    Cardinality({k \in 1..Len(windowListeners) : windowListeners[k] = "handleScroll"})

\* C25: after any sequence of mounts and unmounts, handleScroll is a scroll
\* listener of window exactly when the set listeners is not empty, and it
\* is registered at most once however many components are mounted.
C25_RegisteredIffListeners ==
    /\ Registrations <= 1
    /\ (Registrations = 1) <=> (listeners /= {})

\* two components were mounted and one of them has unmounted: one wrapped
\* callback is left and handleScroll is still registered, once
C25_Witness ==
    /\ called = "unmount"
    /\ Cardinality(listeners) = 1
    /\ \E c \in Components : ~comps[c].mounted /\ comps[c].rafId > 0
    /\ Registrations = 1

\* C28 as first stated: at most one frame requested by handleScroll is
\* pending and ticking is true exactly while one is; scroll events before
\* the frame fires request no further frame; each listener is invoked at
\* most once per frame; after the frame has fired the next scroll event
\* requests a new frame.
C28_OncePerFrame ==
    /\ [](/\ Cardinality(ScrollFrames(frames)) <= 1
          /\ ticking <=> (ScrollFrames(frames) /= {})
          /\ \A c \in Components : calls[c].frame <= 1)
    /\ [][/\ (ticking /\ num' = num + 1) => frames' = frames
          /\ (num = 0 /\ num' = 1 /\ Registrations = 1)
                => (ticking' /\ Cardinality(ScrollFrames(frames')) = 1)]_vars

\* C28: at most one frame requested by handleScroll is pending and ticking
\* is true exactly while one is; scroll events before the frame fires
\* request no further frame; in one frame the callback of handleScroll
\* invokes each listener once, so a listener is invoked at most twice in a
\* frame, the second time only by the initial call of a mount since the
\* last frame; after the frame has fired the next scroll event requests a
\* new frame.
C28_Throttled ==
    /\ [](/\ Cardinality(ScrollFrames(frames)) <= 1
          /\ ticking <=> (ScrollFrames(frames) /= {})
          /\ \A c \in Components : calls[c].frame <= 2)
    /\ [][/\ (ticking /\ num' = num + 1) => frames' = frames
          /\ (num = 0 /\ num' = 1 /\ Registrations = 1)
                => (ticking' /\ Cardinality(ScrollFrames(frames')) = 1)
          /\ \A c \in Components :
                calls'[c].total /= calls[c].total =>
                    calls'[c].frame =
                        (IF ticking /\ \E w \in listeners : w.comp = c THEN 1 ELSE 0)
                        + (IF \E k \in 1..Len(frames) :
                                 frames[k] = FrameRequest(comps[c].rafId, "initial", c)
                           THEN 1 ELSE 0)]_vars

\* two scroll events came before the frame and one frame is pending for them
C28_Witness ==
    /\ called = "scroll"
    /\ num = 2
    /\ ticking
    /\ Cardinality(ScrollFrames(frames)) = 1
    /\ \E c \in Components : calls[c].total > 0

\* C29: after a component unmounts its callback is not invoked again: the
\* initial call requested at its mount is cancelled if it has not run, and
\* a frame pending from an earlier scroll event does not call the removed
\* listener.
C29_SilentAfterUnmount ==
    [][\A c \in Components :
          /\ ~comps[c].mounted => calls'[c].total = calls[c].total
          /\ (comps[c].mounted /\ ~comps'[c].mounted) =>
                /\ \A k \in 1..Len(frames') : frames'[k].comp /= c
                /\ \A w \in listeners' : w.comp /= c]_vars

\* a component unmounted with its initial call and a scroll frame pending;
\* the frame has fired and the callback of the component was never called
C29_Witness ==
    /\ called = "frame"
    /\ \E c \in Components :
          /\ ~comps[c].mounted
          /\ comps[c].rafId > 0
          /\ calls[c].total = 0
    /\ \E c \in Components : calls[c].frame = 1

====
